---- MODULE Spec2Model ----
(***************************************************************************)
(* Model of the ResumeBuilder component                                    *)
(* (src/app/(main)/resume/_components/resume-builder.jsx).                 *)
(*                                                                         *)
(* The state is the component's React state, the react-hook-form values,   *)
(* the position of every suspended async handler with the values its       *)
(* closure captured, and the wall clock.  One action is one run of a       *)
(* handler up to its next await, followed by the re-render and the effect  *)
(* of lines 135-141 (watch() hands every render a fresh formValues object, *)
(* so that effect runs after every render).                                *)
(***************************************************************************)
EXTENDS Integers, Sequences, FiniteSets, TLC

\* ------------------------------------------------------------------ bounds
MaxSteps == 3      \* user events and clock advances per behaviour

MaxElapsedSeconds == 61   \* the longest time between two improve requests

\* ------------------------------------------------------- program constants
W == 60000         \* cooldown window in ms (line 336)
Delay == 500       \* smoothing delay in ms (line 343)
MsPerSecond == 1000

\* Date.now() at mount is far beyond the window, lastEnhancementTime is 0.
StartTime == 2 * W
TickSteps == {W - Delay, W}

\* ------------------------------------------------------------ value domains
ImproveKinds == {"summary", "skills"}
OpKinds == {"summary", "skills", "enhance", "upload"}
ContactFields == <<"name", "email", "mobile", "linkedin", "twitter">>
ListFields == {"experience", "education", "projects"}
ResponseFields == {"summary", "skills", "experience", "education", "projects"}

Entry1 ==
  [title |-> "Dev", subtitle |-> "Acme", startDate |-> "2020",
   endDate |-> "2022", description |-> "built", isCurrent |-> FALSE]
Entry2 ==
  [title |-> "Lead", subtitle |-> "Init", startDate |-> "2023",
   endDate |-> "", description |-> "led", isCurrent |-> TRUE]

UserTexts == {"", "t1", "t2"}
AiText == "ai"
ContactValues == {"", "Ana"}
EditedContactFields == {"name", "email"}
ValidEmail == "ana@x.io"
\* what the user types into a contact input
TypedValues(f) == IF f = "email" THEN ContactValues \cup {ValidEmail} ELSE ContactValues
EntryLists == {<< >>, <<Entry1, Entry2>>}
AiEntries == <<Entry2>>
SeedText == "SEED"
\* a text typed by hand: a blank line that holds a space, a space at the end
UntidyText == "X\n \nY "
TidiedText == "X\n\nY"
ManualTexts == {UntidyText}
TemplateText == "TPL"

EmptyContact == [f \in {"name", "email", "mobile", "linkedin", "twitter"} |-> ""]
\* defaultValues of useForm; an undefined contact field is the empty string
DefaultValues ==
  [contactInfo |-> EmptyContact, summary |-> "", skills |-> "",
   experience |-> << >>, education |-> << >>, projects |-> << >>]

\* ------------------------------------------------------------- projection
RECURSIVE JoinWith(_, _)
\* Array.prototype.join
JoinWith(parts, sep) ==
  IF parts = << >> THEN ""
  ELSE IF Len(parts) = 1 THEN parts[1]
  ELSE parts[1] \o sep \o JoinWith(Tail(parts), sep)

\* the array left as it is
FilterBooleanNone(parts) == parts

\* .filter(Boolean) on an array of strings
FilterBoolean(parts) == SelectSeq(parts, LAMBDA s : s # "")

\* lines 179-183; the emoji that prefix the fields are written as tags
ContactPart(f, v) ==
  CASE f = "name" -> "**" \o v \o "**"
    [] f = "email" -> "(email) " \o v
    [] f = "mobile" -> "(mobile) " \o v
    [] f = "linkedin" -> "(linkedin) [LinkedIn](" \o v \o ")"
    [] f = "twitter" -> "(twitter) [Twitter](" \o v \o ")"

\* lines 176-188
getContactMarkdown(fv) ==
  LET parts == FilterBoolean(
        [i \in 1..Len(ContactFields) |->
           IF fv.contactInfo[ContactFields[i]] # ""
             THEN ContactPart(ContactFields[i], fv.contactInfo[ContactFields[i]])
             ELSE ""])
  IN IF Len(parts) > 0
       THEN "## Contact Information\n\n" \o JoinWith(parts, " | ")
       ELSE ""

\* one entry: title, subtitle, date range (open-ended for a current entry),
\* description
EntryMarkdown(e) ==
  "### " \o e.title \o " @ " \o e.subtitle \o "\n"
    \o (IF e.isCurrent THEN e.startDate \o " - Present"
                     ELSE e.startDate \o " - " \o e.endDate)
    \o "\n\n" \o e.description

\* the imported helper: nothing for an empty list, else a titled section
\* with the entries in list order
entriesToMarkdown(entries, type) ==
  IF Len(entries) = 0 THEN ""
  ELSE "## " \o type \o "\n\n"
         \o JoinWith([i \in 1..Len(entries) |-> EntryMarkdown(entries[i])], "\n\n")

\* lines 194-195: summary && `## ...`
SectionOrNothing(title, text) ==
  IF text # "" THEN "## " \o title \o "\n\n" \o text ELSE ""

\* lines 190-202
getCombinedContent(fv) ==
  JoinWith(
    FilterBoolean(<<
      getContactMarkdown(fv),
      SectionOrNothing("Professional Summary", fv.summary),
      SectionOrNothing("Skills", fv.skills),
      entriesToMarkdown(fv.experience, "Work Experience"),
      entriesToMarkdown(fv.education, "Education"),
      entriesToMarkdown(fv.projects, "Projects") >>),
    "\n\n")

\* ----------------------------------------------------------- rate limiter
\* line 336: the cooldown test of improveWithAI
Busy(t, last) == t - last < W

\* Math.ceil of a / b for a > 0, b > 0
CeilDiv(a, b) == (a + b - 1) \div b

\* the wait rounded down
WaitTimeFloor(t, last) == (W - (t - last)) \div MsPerSecond

\* line 337: the wait reported with the refusal, in whole seconds
WaitTime(t, last) == CeilDiv(W - (t - last), MsPerSecond)

\* ------------------------------------------------------ collaborator replies
\* What a fetch can come back with: the promise rejects (net = FALSE), the
\* response is not ok (status, body text), response.json() throws
\* (json = FALSE), or a parsed body.
NetworkFailure ==
  [net |-> FALSE, ok |-> FALSE, status |-> 0, body |-> "", json |-> FALSE]
Http(status, body) ==
  [net |-> TRUE, ok |-> FALSE, status |-> status, body |-> body, json |-> FALSE]
BadJson ==
  [net |-> TRUE, ok |-> TRUE, status |-> 200, body |-> "", json |-> FALSE]
Parsed ==
  [net |-> TRUE, ok |-> TRUE, status |-> 200, body |-> "", json |-> TRUE]

Failures ==
  { NetworkFailure, Http(429, "Too Many Requests"), Http(429, ""),
    Http(500, "boom"), Http(500, "upstream 429"), BadJson }

\* the replies whose body is never parsed but could hold content
Refusals == { r \in Failures : r.net /\ ~r.ok }

\* replies to improveWithAI: data.content is a string (absent reads as "")
ImproveReplies ==
  { [reply |-> r, content |-> ""] : r \in Failures }
    \cup { [reply |-> r, content |-> AiText] : r \in Refusals }
    \cup { [reply |-> Parsed, content |-> c] : c \in {"", AiText} }

\* data.content of /api/resume/enhance and /api/resume/upload: the fields
\* in `present` are in the object, with the values of `val`; has = FALSE is
\* a body without content.
NoContent ==
  [has |-> FALSE, present |-> {},
   val |-> [summary |-> "", skills |-> "", experience |-> << >>,
            education |-> << >>, projects |-> << >>]]
Content(present, summary, skills, experience, education, projects) ==
  [has |-> TRUE, present |-> present,
   val |-> [summary |-> summary, skills |-> skills, experience |-> experience,
            education |-> education, projects |-> projects]]
AiContent ==
  Content(ResponseFields, AiText, AiText, AiEntries, AiEntries, AiEntries)
Contents ==
  { NoContent,
    AiContent,
    Content({"summary", "skills"}, AiText, AiText, << >>, << >>, << >>),
    Content(ResponseFields, "", "", << >>, << >>, << >>) }
DocumentReplies ==
  { [reply |-> r, content |-> NoContent] : r \in Failures }
    \cup { [reply |-> r, content |-> AiContent] : r \in Refusals }
    \cup { [reply |-> Parsed, content |-> c] : c \in Contents }

\* the body read whatever the reply
SucceededAlways(r) == TRUE

\* lines 356, 368 / 448, 453 / 501, 506: the reply is ok and its body parses
Succeeded(r) == r.reply.net /\ r.reply.ok /\ r.reply.json

\* lines 456-464 and 509-517: each field is written when it is truthy
\* (a list: when it is non-empty)
Truthy(c, f) ==
  /\ c.has
  /\ f \in c.present
  /\ IF f \in ListFields THEN Len(c.val[f]) > 0 ELSE c.val[f] # ""

\* contactInfo written with the sections: a reply with content empties it
ApplyContentWithContact(fv, c) ==
  [fv EXCEPT
     !.contactInfo = IF c.has THEN EmptyContact ELSE @,
     !.summary = IF Truthy(c, "summary") THEN c.val.summary ELSE @,
     !.skills = IF Truthy(c, "skills") THEN c.val.skills ELSE @,
     !.experience = IF Truthy(c, "experience") THEN c.val.experience ELSE @,
     !.education = IF Truthy(c, "education") THEN c.val.education ELSE @,
     !.projects = IF Truthy(c, "projects") THEN c.val.projects ELSE @]

\* the writes put off until after the success has been reported
ApplyContentLater(fv, c) == fv

\* the reply taken as the whole document: a field it lacks is emptied
ApplyContentWholesale(fv, c) ==
  [fv EXCEPT
     !.summary = IF Truthy(c, "summary") THEN c.val.summary ELSE "",
     !.skills = IF Truthy(c, "skills") THEN c.val.skills ELSE "",
     !.experience = IF Truthy(c, "experience") THEN c.val.experience ELSE << >>,
     !.education = IF Truthy(c, "education") THEN c.val.education ELSE << >>,
     !.projects = IF Truthy(c, "projects") THEN c.val.projects ELSE << >>]

ApplyContent(fv, c) ==
  [fv EXCEPT
     !.summary = IF Truthy(c, "summary") THEN c.val.summary ELSE @,
     !.skills = IF Truthy(c, "skills") THEN c.val.skills ELSE @,
     !.experience = IF Truthy(c, "experience") THEN c.val.experience ELSE @,
     !.education = IF Truthy(c, "education") THEN c.val.education ELSE @,
     !.projects = IF Truthy(c, "projects") THEN c.val.projects ELSE @]

\* ------------------------------------------------------------------- state
VARIABLES
  initialContent,        \* the prop
  activeTab,             \* "edit" (Form) or "preview" (Markdown)
  resumeMode,            \* "preview" or "edit": the MDEditor's mode
  previewContent,        \* the displayed text
  formValues,            \* the react-hook-form values
  isImproving,           \* isImprovingSummary, isImprovingSkills (by kind)
  isUploading,
  isEnhancing,
  lastEnhancementTime,
  isGeneratingTemplate,  \* loading of useFetch(generateResumeTemplate)
  templateResult,        \* data of useFetch(generateResumeTemplate), "" = none
  isDeleting,            \* loading of useFetch(deleteResume)
  improve,               \* by kind: the suspended handleImprove* / improveWithAI
  enhance,               \* the suspended handleEnhanceResume
  upload,                \* the suspended handleFileUpload
  isSaving,              \* loading of useFetch(saveResume)
  saveResult,            \* data of useFetch(saveResume)
  atsScore,              \* 0 stands for null
  atsFeedback,           \* "" stands for null
  save,                  \* the suspended saveResumeFn call and the text handed to it
  now,                   \* Date.now()
  toast,                 \* the last toast.error or toast.success shown
  outstanding,           \* by kind: handler runs started and not yet finished
  lastSuccessAt,         \* by limiter client: when a call last succeeded, 0 = never
  nSteps                 \* user events and clock advances so far

viewV == <<activeTab, resumeMode>>
flagV == <<isImproving, isUploading, isEnhancing>>
fetchV == <<isGeneratingTemplate, templateResult, isDeleting>>
pendV == <<improve, enhance, upload>>
ghostV == <<outstanding, lastSuccessAt>>
countV == <<nSteps>>
saveV == <<isSaving, saveResult, atsScore, atsFeedback, save>>
vars ==
  <<initialContent, activeTab, resumeMode, previewContent, formValues,
    isImproving, isUploading, isEnhancing, lastEnhancementTime,
    isGeneratingTemplate, templateResult, isDeleting,
    improve, enhance, upload, now, toast, outstanding, lastSuccessAt,
    nSteps, isSaving, saveResult, atsScore, atsFeedback, save>>

Toast(kind, by) == [kind |-> kind, by |-> by, wait |-> 0]
IdleImprove == [pc |-> "idle", current |-> "", startAt |-> 0]
IdleDocument == [pc |-> "idle", snap |-> DefaultValues]
IdleSave == [pc |-> "idle", text |-> ""]

\* what saveResume resolves to: nothing yet, a result without a score, a
\* result with a score and its feedback
NoResult == [has |-> FALSE, atsScore |-> 0, feedback |-> ""]
SaveResults ==
  { [has |-> TRUE, atsScore |-> 0, feedback |-> ""],
    [has |-> TRUE, atsScore |-> 80, feedback |-> "fb"] }

\* lines 79-80: no score and no feedback at mount
NoSave ==
  /\ isSaving = FALSE
  /\ saveResult = NoResult
  /\ atsScore = 0
  /\ atsFeedback = ""
  /\ save = IdleSave

\* the effect putting initialContent back on the Markdown tab
PreviewEffectReseeds(tab, fv, shown) ==
  IF tab = "edit"
    THEN LET newContent == getCombinedContent(fv)
         IN IF newContent # "" THEN newContent ELSE initialContent
    ELSE initialContent

\* the effect not run again after a render
PreviewEffectNotRun(tab, fv, shown) == shown

\* the effect without its fallback to initialContent
PreviewEffectNoFallback(tab, fv, shown) ==
  IF tab = "edit" THEN getCombinedContent(fv) ELSE shown

\* lines 136-141, after the render that follows a state change: on the Form
\* tab the displayed text becomes the projection, or initialContent when
\* the projection is empty; on the Markdown tab it keeps what was set.
PreviewEffect(tab, fv, shown) ==
  IF tab = "edit"
    THEN LET newContent == getCombinedContent(fv)
         IN IF newContent # "" THEN newContent ELSE initialContent
    ELSE shown

\* lines 75-87, 98-105 and the mount effect of lines 131-133
Init ==
  /\ initialContent \in {"", SeedText}
  /\ activeTab = (IF initialContent # "" THEN "preview" ELSE "edit")
  /\ resumeMode = "preview"
  /\ previewContent = initialContent
  /\ formValues = DefaultValues
  /\ isImproving = [k \in ImproveKinds |-> FALSE]
  /\ isUploading = FALSE
  /\ isEnhancing = FALSE
  /\ lastEnhancementTime = 0
  /\ isGeneratingTemplate = FALSE
  /\ templateResult = ""
  /\ isDeleting = FALSE
  /\ improve = [k \in ImproveKinds |-> IdleImprove]
  /\ enhance = IdleDocument
  /\ upload = IdleDocument
  /\ now = StartTime
  /\ toast = Toast("none", "none")
  /\ outstanding = [k \in OpKinds |-> 0]
  /\ lastSuccessAt = [c \in {"improve", "enhance"} |-> 0]
  /\ nSteps = 0
  /\ NoSave

\* ------------------------------------------------------------ the user
\* lines 760-764: Tabs onValueChange={setActiveTab}
SetActiveTab(tab) ==
  /\ tab # activeTab
  /\ nSteps < MaxSteps
  /\ nSteps' = nSteps + 1
  /\ activeTab' = tab
  /\ previewContent' = PreviewEffect(tab, formValues, previewContent)
  /\ UNCHANGED <<initialContent, saveV, resumeMode, formValues, flagV,
                 lastEnhancementTime, fetchV, pendV, now, toast, ghostV>>

\* lines 978-999: the Edit Resume / Show Preview link of the Markdown tab
ToggleResumeMode ==
  /\ activeTab = "preview"
  /\ nSteps < MaxSteps
  /\ nSteps' = nSteps + 1
  /\ resumeMode' = (IF resumeMode = "preview" THEN "edit" ELSE "preview")
  /\ UNCHANGED <<initialContent, saveV, activeTab, previewContent, formValues, flagV,
                 lastEnhancementTime, fetchV, pendV, now, toast, ghostV>>

\* the banner shown beside the rendered text instead of beside the editor
WarningInPreviewMode == activeTab = "preview" /\ resumeMode = "preview"

\* lines 1001-1008: the banner "You will lose edited markdown if you update
\* the form data." is rendered
WarningVisible == activeTab = "preview" /\ resumeMode # "preview"

\* lines 1010-1015: MDEditor onChange={setPreviewContent}; the editor pane
\* exists on the Markdown tab when the editor is not in preview mode
ManualEdit(text) ==
  /\ activeTab = "preview"
  /\ resumeMode # "preview"
  /\ nSteps < MaxSteps
  /\ text # previewContent
  /\ previewContent' = text
  /\ nSteps' = nSteps + 1
  /\ UNCHANGED <<initialContent, saveV, viewV, formValues, flagV, lastEnhancementTime,
                 fetchV, pendV, now, toast, ghostV>>

\* A write of the form by the user; the form is mounted on the Form tab only
\* (lines 766-975).
UserSetValue(fv) ==
  /\ activeTab = "edit"
  /\ nSteps < MaxSteps
  /\ fv # formValues
  /\ formValues' = fv
  /\ previewContent' = PreviewEffect(activeTab, fv, previewContent)
  /\ nSteps' = nSteps + 1
  /\ UNCHANGED <<initialContent, saveV, viewV, flagV, lastEnhancementTime, fetchV,
                 pendV, now, toast, ghostV>>

\* the shape check of resumeSchema for a contact field: an email that is
\* given has the form of an email address
ShapeOk(f, v) == (f = "email" /\ v # "") => v = ValidEmail

\* a value that fails the shape check turned away by the input
SetContactChecked(f, v) ==
  IF ShapeOk(f, v)
    THEN UserSetValue([formValues EXCEPT !.contactInfo[f] = v])
    ELSE /\ activeTab = "edit"
         /\ nSteps < MaxSteps
         /\ nSteps' = nSteps + 1
         /\ UNCHANGED <<initialContent, saveV, viewV, previewContent, formValues,
                        flagV, lastEnhancementTime, fetchV, pendV, now, toast,
                        ghostV>>

\* lines 774-840: the registered contact inputs; register() stores what is
\* typed, the resolver of line 97 is not run by a change of an input
SetContact(f, v) ==
  UserSetValue([formValues EXCEPT !.contactInfo[f] = v])

\* the textarea disabled while its improve request is in flight
SetTextUnlessImproving(k, v) ==
  /\ ~isImproving[k]
  /\ UserSetValue([formValues EXCEPT ![k] = v])

\* lines 870-875 and 904-909: the summary and skills textareas
SetText(k, v) == UserSetValue([formValues EXCEPT ![k] = v])

\* lines 915-967: the entry lists, replaced wholesale by field.onChange
SetEntries(f, entries) == UserSetValue([formValues EXCEPT ![f] = entries])

\* the wall clock
Tick(d) ==
  /\ nSteps < MaxSteps
  /\ now' = now + d
  /\ nSteps' = nSteps + 1
  /\ UNCHANGED <<initialContent, saveV, viewV, previewContent, formValues, flagV,
                 lastEnhancementTime, fetchV, pendV, toast, ghostV>>

\* a button left enabled while its request is in flight
DisabledNever(inFlight) == FALSE

\* lines 723, 743, 853, 887: a button is disabled while its request is in flight
Disabled(inFlight) == inFlight

\* ------------------------------------------------------- improve a section
\* the empty-input test left out
EmptyInputNever(text) == FALSE

\* lines 381 and 408: the empty-input test of the handlers
EmptyInput(text) == text = ""

\* lines 380-393 / 407-420 with improveWithAI up to its first await (332-343).
\* The button is on the Form tab and is disabled while the kind is in flight
\* (lines 853, 887); the handler repeats the button's test of the field.
HandleImprove(k) ==
  /\ activeTab = "edit"
  /\ ~Disabled(isImproving[k])
  /\ IF EmptyInput(formValues[k])
       THEN /\ toast' = Toast("empty", k)
            /\ UNCHANGED <<isImproving, improve, outstanding, nSteps>>
       ELSE IF Busy(now, lastEnhancementTime)
         \* the flag is set and, improveWithAI having returned null, cleared
         \* by the finally before any other event is handled
         THEN /\ toast' = [kind |-> "busy", by |-> k,
                         wait |-> WaitTime(now, lastEnhancementTime)]
              /\ UNCHANGED <<isImproving, improve, outstanding, nSteps>>
         ELSE /\ nSteps < MaxSteps
              /\ nSteps' = nSteps + 1
              /\ isImproving' = [isImproving EXCEPT ![k] = TRUE]
              /\ improve' = [improve EXCEPT ![k] =
                               [pc |-> "delay", current |-> formValues[k], startAt |-> now]]
              /\ outstanding' = [outstanding EXCEPT ![k] = @ + 1]
              /\ toast' = toast
  /\ UNCHANGED <<initialContent, saveV, viewV, previewContent, formValues, isUploading,
                 isEnhancing, lastEnhancementTime, fetchV, enhance, upload, now,
                 lastSuccessAt>>

\* line 343: the timer fires, not before its delay has passed;
\* lines 345-354: the request is sent
ImproveDelayDone(k) ==
  /\ improve[k].pc = "delay"
  /\ now' = (IF now < improve[k].startAt + Delay
               THEN improve[k].startAt + Delay ELSE now)
  /\ improve' = [improve EXCEPT ![k].pc = "fetch"]
  /\ UNCHANGED <<initialContent, saveV, viewV, previewContent, formValues, flagV,
                 lastEnhancementTime, fetchV, enhance, upload, toast,
                 ghostV, countV>>

\* the flag cleared at the end of the try block, not in a finally
FlagLeftOnFailure(r) == ~Succeeded(r)

\* lines 402-404, 429-431, 474-479, 533-535: the finally of a handler clears
\* its in-flight flag whatever the reply
FlagAfterReply(r) == FALSE

\* the clock never recorded
RecordSuccessNever(r, t, last) == last

\* the clock recorded on every reply
RecordSuccessAlways(r, t, last) == t

\* line 371: the cooldown clock after a reply to improveWithAI
RecordSuccess(r, t, last) == IF Succeeded(r) THEN t ELSE last

\* line 360: the status improveWithAI reports as a rate limit
IsRateLimited(reply) == reply.net /\ ~reply.ok /\ reply.status = 429

\* lines 356-377 and 395-404 / 422-431: the reply arrives
ImproveResolve(k, r) ==
  /\ improve[k].pc = "fetch"
  /\ lastEnhancementTime' = RecordSuccess(r, now, lastEnhancementTime)
  /\ lastSuccessAt' = [lastSuccessAt EXCEPT !.improve = IF Succeeded(r) THEN now ELSE @]
  /\ formValues' = IF Succeeded(r) /\ r.content # ""
                     THEN [formValues EXCEPT ![k] = r.content]
                     ELSE formValues
  /\ toast' = IF Succeeded(r)
                THEN (IF r.content # "" THEN Toast("success", k) ELSE toast)
                ELSE IF IsRateLimited(r.reply) THEN Toast("rate", k) ELSE Toast("error", k)
  /\ isImproving' = [isImproving EXCEPT ![k] = FlagAfterReply(r)]
  /\ improve' = [improve EXCEPT ![k] = IdleImprove]
  /\ outstanding' = [outstanding EXCEPT ![k] = @ - 1]
  /\ previewContent' = PreviewEffect(activeTab, formValues', previewContent)
  /\ UNCHANGED <<initialContent, saveV, viewV, isUploading, isEnhancing, fetchV,
                 enhance, upload, now, countV>>

\* ------------------------------------------------- enhance the whole resume
\* the test widened to every field of the form
NothingAtAll(fv) == fv = DefaultValues

\* line 483: nothing to enhance
NothingToEnhance(fv) ==
  fv.summary = "" /\ fv.skills = "" /\ Len(fv.experience) = 0

\* lines 502-503 / 449-450: the message of the error a reply is turned into
ErrorMessage(reply, fallback) ==
  IF reply.net /\ ~reply.ok /\ reply.body # "" THEN reply.body ELSE fallback

\* line 528: error.message.includes("429") || includes("Too Many Requests"),
\* decided for the messages the replies above can produce
MentionsRateLimit(message) == message \in {"Too Many Requests", "upstream 429"}

\* lines 482-499: the handler up to its await of fetch; the button is
\* disabled while isEnhancing (line 743).  No cooldown test, no delay.
HandleEnhanceResume ==
  /\ ~Disabled(isEnhancing)
  /\ IF NothingToEnhance(formValues)
       THEN /\ toast' = Toast("empty", "enhance")
            /\ UNCHANGED <<isEnhancing, enhance, outstanding, nSteps>>
       ELSE /\ nSteps < MaxSteps
            /\ nSteps' = nSteps + 1
            /\ isEnhancing' = TRUE
            /\ enhance' = [pc |-> "fetch", snap |-> formValues]
            /\ outstanding' = [outstanding EXCEPT !.enhance = @ + 1]
            /\ toast' = toast
  /\ UNCHANGED <<initialContent, saveV, viewV, previewContent, formValues, isImproving,
                 isUploading, lastEnhancementTime, fetchV, improve, upload, now,
                 lastSuccessAt>>

\* lines 455-468 and 508-521: the reply's fields are written with setValue,
\* then setPreviewContent(getCombinedContent()) of the closure, whose
\* formValues are those of the render the handler was started in.
ShownAfterContent(c, snap, shown) ==
  IF c.has THEN getCombinedContent(snap) ELSE shown

\* lines 501-535: the reply arrives
EnhanceResolve(r) ==
  /\ enhance.pc = "fetch"
  /\ toast' = IF Succeeded(r) THEN Toast("success", "enhance")
              ELSE IF MentionsRateLimit(ErrorMessage(r.reply, "Failed to enhance resume"))
                THEN Toast("rate", "enhance") ELSE Toast("error", "enhance")
  /\ lastSuccessAt' = [lastSuccessAt EXCEPT !.enhance = IF Succeeded(r) THEN now ELSE @]
  /\ isEnhancing' = FlagAfterReply(r)
  /\ enhance' = IdleDocument
  /\ outstanding' = [outstanding EXCEPT !.enhance = @ - 1]
  /\ formValues' = IF Succeeded(r) THEN ApplyContent(formValues, r.content)
                                   ELSE formValues
  /\ previewContent' =
       PreviewEffect(activeTab, formValues',
                     IF Succeeded(r)
                       THEN ShownAfterContent(r.content, enhance.snap, previewContent)
                       ELSE previewContent)
  /\ UNCHANGED <<initialContent, saveV, viewV, isImproving, isUploading,
                 lastEnhancementTime, fetchV, improve, upload, now, countV>>

\* ------------------------------------------------------------ import a file
\* the import put behind the cooldown test of improveWithAI
HandleFileUploadLimited ==
  /\ ~Disabled(isUploading)
  /\ ~Busy(now, lastEnhancementTime)
  /\ nSteps < MaxSteps
  /\ nSteps' = nSteps + 1
  /\ isUploading' = TRUE
  /\ upload' = [pc |-> "fetch", snap |-> formValues]
  /\ outstanding' = [outstanding EXCEPT !.upload = @ + 1]
  /\ UNCHANGED <<initialContent, saveV, viewV, previewContent, formValues,
                 isImproving, isEnhancing, lastEnhancementTime, fetchV, improve,
                 enhance, now, toast, lastSuccessAt>>

\* lines 434-446: a file was chosen; the button that opens the picker is
\* disabled while isUploading (line 723)
HandleFileUpload ==
  /\ ~Disabled(isUploading)
  /\ nSteps < MaxSteps
  /\ nSteps' = nSteps + 1
  /\ isUploading' = TRUE
  /\ upload' = [pc |-> "fetch", snap |-> formValues]
  /\ outstanding' = [outstanding EXCEPT !.upload = @ + 1]
  /\ UNCHANGED <<initialContent, saveV, viewV, previewContent, formValues, isImproving,
                 isEnhancing, lastEnhancementTime, fetchV, improve, enhance, now,
                 toast, lastSuccessAt>>

\* lines 448-479: the reply arrives
UploadResolve(r) ==
  /\ upload.pc = "fetch"
  /\ toast' = IF Succeeded(r) THEN Toast("success", "upload") ELSE Toast("error", "upload")
  /\ isUploading' = FlagAfterReply(r)
  /\ upload' = IdleDocument
  /\ outstanding' = [outstanding EXCEPT !.upload = @ - 1]
  /\ formValues' = IF Succeeded(r) THEN ApplyContent(formValues, r.content)
                                   ELSE formValues
  /\ previewContent' =
       PreviewEffect(activeTab, formValues',
                     IF Succeeded(r)
                       THEN ShownAfterContent(r.content, upload.snap, previewContent)
                       ELSE previewContent)
  /\ UNCHANGED <<initialContent, saveV, viewV, isImproving, isEnhancing,
                 lastEnhancementTime, fetchV, improve, enhance, now,
                 lastSuccessAt, countV>>

\* ----------------------------------------------------------------- template
\* lines 328-330, 585-586: a template is picked; the buttons are disabled
\* while isGeneratingTemplate
HandleTemplateSelect ==
  /\ ~isGeneratingTemplate
  /\ nSteps < MaxSteps
  /\ nSteps' = nSteps + 1
  /\ isGeneratingTemplate' = TRUE
  /\ UNCHANGED <<initialContent, saveV, viewV, previewContent, formValues, flagV,
                 lastEnhancementTime, templateResult, isDeleting, pendV, now,
                 toast, ghostV>>

\* lines 158-167: the effect that follows the end of the request.  It runs
\* because isGeneratingTemplate changed, and sets the displayed text to
\* templateResult whenever there is one, the one of an earlier request too.
TemplateResolve(ok) ==
  /\ isGeneratingTemplate
  /\ isGeneratingTemplate' = FALSE
  /\ templateResult' = IF ok THEN TemplateText ELSE templateResult
  /\ previewContent' =
       PreviewEffect(activeTab, formValues,
                     IF templateResult' # "" THEN templateResult' ELSE previewContent)
  /\ toast' = IF ok THEN Toast("success", "template") ELSE Toast("error", "template")
  /\ UNCHANGED <<initialContent, saveV, viewV, formValues, flagV, lastEnhancementTime,
                 isDeleting, pendV, now, ghostV, countV>>

\* ------------------------------------------------------------------- delete
\* lines 538-540, 631, 654-659: the delete is confirmed
HandleDelete ==
  /\ ~isDeleting
  /\ nSteps < MaxSteps
  /\ nSteps' = nSteps + 1
  /\ isDeleting' = TRUE
  /\ UNCHANGED <<initialContent, saveV, viewV, previewContent, formValues, flagV,
                 lastEnhancementTime, isGeneratingTemplate, templateResult, pendV,
                 now, toast, ghostV>>

\* lines 541-555: deleteResumeFn() returns (the form and the displayed text
\* are reset) or throws (the catch of line 552)
DeleteResolve(returned) ==
  /\ isDeleting
  /\ isDeleting' = FALSE
  /\ formValues' = IF returned THEN DefaultValues ELSE formValues
  /\ previewContent' =
       PreviewEffect(activeTab, formValues', IF returned THEN "" ELSE previewContent)
  /\ toast' = IF returned THEN Toast("success", "delete") ELSE Toast("error", "delete")
  /\ atsScore' = IF returned THEN 0 ELSE atsScore
  /\ atsFeedback' = IF returned THEN "" ELSE atsFeedback
  /\ UNCHANGED <<initialContent, isSaving, saveResult, save, viewV, flagV,
                 lastEnhancementTime, isGeneratingTemplate, templateResult,
                 pendV, now, ghostV, countV>>

\* --------------------------------------------------------------------- save
\* the validation of resumeSchema: every contact field passes its shape
\* check and every entry has a title
SchemaOk(fv) ==
  /\ \A f \in DOMAIN fv.contactInfo : ShapeOk(f, fv.contactInfo[f])
  /\ \A l \in ListFields : \A i \in 1..Len(fv[l]) : fv[l][i].title # ""

\* lines 317-320: blank lines that hold white space or are repeated become
\* one blank line, and the ends are trimmed.  The displayed texts of this
\* model are in that form except the hand-typed one.
Format(text) == IF text = UntidyText THEN TidiedText ELSE text

\* the projection handed over in place of the displayed text
TextToSaveProjected(shown, fv) == Format(getCombinedContent(fv))

\* lines 315-321: the text onSubmit hands to saveResumeFn
TextToSave(shown, fv) == Format(shown)

\* lines 599-603 with 315-326: Save is clicked.  handleSubmit runs the
\* resolver and calls onSubmit only for values that pass; for values that
\* fail nothing but the form's error messages changes.
HandleSave ==
  /\ ~Disabled(isSaving)
  /\ nSteps < MaxSteps
  /\ nSteps' = nSteps + 1
  /\ IF SchemaOk(formValues)
       THEN /\ isSaving' = TRUE
            /\ save' = [pc |-> "call", text |-> TextToSave(previewContent, formValues)]
       ELSE UNCHANGED <<isSaving, save>>
  /\ UNCHANGED <<initialContent, viewV, previewContent, formValues, flagV,
                 lastEnhancementTime, fetchV, pendV, now, toast, ghostV,
                 saveResult, atsScore, atsFeedback>>

\* lines 144-155: saveResumeFn settles, with a result (ok) or with an error;
\* the effect reports the result held, the one of an earlier save too, and
\* takes its score and feedback
SaveResolve(ok, res) ==
  /\ save.pc = "call"
  /\ isSaving' = FALSE
  /\ save' = IdleSave
  /\ saveResult' = IF ok THEN res ELSE saveResult
  /\ toast' = IF ~ok THEN Toast("error", "save")
              ELSE Toast("success", "save")
  /\ atsScore' = IF saveResult'.has /\ saveResult'.atsScore # 0
                   THEN saveResult'.atsScore ELSE atsScore
  /\ atsFeedback' = IF saveResult'.has /\ saveResult'.atsScore # 0
                      THEN saveResult'.feedback ELSE atsFeedback
  /\ UNCHANGED <<initialContent, viewV, previewContent, formValues, flagV,
                 lastEnhancementTime, fetchV, pendV, now, ghostV, countV>>

\* -------------------------------------------------------------------- next
Next ==
  \/ \E tab \in {"edit", "preview"} : SetActiveTab(tab)
  \/ ToggleResumeMode
  \/ \E text \in ManualTexts : ManualEdit(text)
  \/ \E f \in EditedContactFields : \E v \in TypedValues(f) : SetContact(f, v)
  \/ \E k \in ImproveKinds, v \in UserTexts : SetText(k, v)
  \/ \E f \in ListFields, entries \in EntryLists : SetEntries(f, entries)
  \/ \E d \in TickSteps : Tick(d)
  \/ \E k \in ImproveKinds : HandleImprove(k)
  \/ \E k \in ImproveKinds : ImproveDelayDone(k)
  \/ \E k \in ImproveKinds, r \in ImproveReplies : ImproveResolve(k, r)
  \/ HandleEnhanceResume
  \/ \E r \in DocumentReplies : EnhanceResolve(r)
  \/ HandleFileUpload
  \/ \E r \in DocumentReplies : UploadResolve(r)
  \/ HandleTemplateSelect
  \/ \E ok \in BOOLEAN : TemplateResolve(ok)
  \/ HandleDelete
  \/ \E returned \in BOOLEAN : DeleteResolve(returned)
  \/ HandleSave
  \/ \E ok \in BOOLEAN, res \in SaveResults : SaveResolve(ok, res)

Spec == Init /\ [][Next]_vars

\* Every timer fires and every request sent is answered or fails.
Fairness ==
  /\ \A k \in ImproveKinds : WF_vars(ImproveDelayDone(k))
  /\ \A k \in ImproveKinds : WF_vars(\E r \in ImproveReplies : ImproveResolve(k, r))
  /\ WF_vars(\E r \in DocumentReplies : EnhanceResolve(r))
  /\ WF_vars(\E r \in DocumentReplies : UploadResolve(r))

FairSpec == Spec /\ Fairness

\* ------------------------------------------- the projection on its own
\* A session whose form was filled in, shown on the Markdown tab with the
\* editor open and the displayed text cleared by hand; the switch to the
\* Form tab projects the form.
FilledContact ==
  [name |-> "Ana", email |-> ValidEmail, mobile |-> "555",
   linkedin |-> "li.example/ana", twitter |-> "tw.example/ana"]
Documents ==
  { [contactInfo |-> [f \in DOMAIN EmptyContact |->
                        IF f \in filled THEN FilledContact[f] ELSE ""],
     summary |-> summary, skills |-> skills, experience |-> experience,
     education |-> education, projects |-> projects] :
      filled \in SUBSET (DOMAIN EmptyContact),
      summary \in {"", "t1"}, skills \in {"", "t2"},
      experience \in EntryLists, education \in EntryLists,
      projects \in EntryLists }

ProjInit ==
  /\ initialContent = ""
  /\ activeTab = "preview"
  /\ resumeMode = "edit"
  /\ previewContent = ""
  /\ formValues \in Documents
  /\ isImproving = [k \in ImproveKinds |-> FALSE]
  /\ isUploading = FALSE
  /\ isEnhancing = FALSE
  /\ lastEnhancementTime = 0
  /\ isGeneratingTemplate = FALSE
  /\ templateResult = ""
  /\ isDeleting = FALSE
  /\ improve = [k \in ImproveKinds |-> IdleImprove]
  /\ enhance = IdleDocument
  /\ upload = IdleDocument
  /\ now = StartTime
  /\ toast = Toast("none", "none")
  /\ outstanding = [k \in OpKinds |-> 0]
  /\ lastSuccessAt = [c \in {"improve", "enhance"} |-> 0]
  /\ nSteps = 0
  /\ NoSave

ProjNext == \E tab \in {"edit", "preview"} : SetActiveTab(tab)

ProjSpec == ProjInit /\ [][ProjNext]_vars

\* --------------------------------------------- the cooldown on its own
\* A session on the Form tab in which an improve request succeeded at
\* StartTime; the next improve request is made Elapsed ms later.
Elapsed ==
  { e \in { s * MsPerSecond + d : s \in 0..MaxElapsedSeconds, d \in {-1, 0, 1} } :
      e >= 0 }

LimInit ==
  /\ initialContent = ""
  /\ activeTab = "edit"
  /\ resumeMode = "preview"
  /\ formValues = [DefaultValues EXCEPT !.summary = AiText, !.skills = "t2"]
  /\ previewContent = getCombinedContent(formValues)
  /\ isImproving = [k \in ImproveKinds |-> FALSE]
  /\ isUploading = FALSE
  /\ isEnhancing = FALSE
  /\ lastEnhancementTime = StartTime
  /\ isGeneratingTemplate = FALSE
  /\ templateResult = ""
  /\ isDeleting = FALSE
  /\ improve = [k \in ImproveKinds |-> IdleImprove]
  /\ enhance = IdleDocument
  /\ upload = IdleDocument
  /\ now \in { StartTime + e : e \in Elapsed }
  /\ toast = Toast("success", "summary")
  /\ outstanding = [k \in OpKinds |-> 0]
  /\ lastSuccessAt = [c \in {"improve", "enhance"} |->
                        IF c = "improve" THEN StartTime ELSE 0]
  /\ nSteps = 0
  /\ NoSave

LimNext == \E k \in ImproveKinds : HandleImprove(k)

LimSpec == LimInit /\ [][LimNext]_vars

\* ================================================================ claims
Projection == getCombinedContent(formValues)

\* by kind: the in-flight flag, what the suspended handler captured, and
\* the step that is its reply handler
InFlight(k) ==
  IF k \in ImproveKinds THEN isImproving[k]
  ELSE IF k = "enhance" THEN isEnhancing ELSE isUploading
Captured(k) ==
  IF k \in ImproveKinds THEN <<improve[k].current, improve[k].startAt>>
  ELSE IF k = "enhance" THEN <<enhance.snap, 0>> ELSE <<upload.snap, 0>>
Resolved(k) ==
  \/ k \in ImproveKinds /\ \E r \in ImproveReplies : ImproveResolve(k, r)
  \/ k = "enhance" /\ \E r \in DocumentReplies : EnhanceResolve(r)
  \/ k = "upload" /\ \E r \in DocumentReplies : UploadResolve(r)

\* a call to the enhancement collaborator is outstanding
CallOutstanding(c) ==
  IF c \in ImproveKinds THEN improve[c].pc = "fetch" ELSE enhance.pc = "fetch"

\* a request passes to its collaborator call in this step
Accepted ==
  \/ \E k \in ImproveKinds : improve[k].pc = "idle" /\ improve'[k].pc = "delay"
  \/ enhance.pc = "idle" /\ enhance'.pc = "fetch"
InCooldownOf(c) == lastSuccessAt[c] > 0 /\ now - lastSuccessAt[c] < W

C2_FreeformTextKept ==
  [][(/\ activeTab = "preview"
      /\ activeTab' = "preview"
      /\ formValues' # formValues
      /\ ~(\E returned \in BOOLEAN : DeleteResolve(returned)))
       => previewContent' = previewContent]_vars

C4_SharedCooldown ==
  [][Accepted => ~(InCooldownOf("improve") \/ InCooldownOf("enhance"))]_vars

\* C5: an improve request started within W of a successful improve
\* request sends nothing, writes nothing to the form, and, its field not
\* being empty, reports a wait of at least one second.
C5_RefusedWithinWindow ==
  [][\A k \in ImproveKinds :
       (HandleImprove(k) /\ InCooldownOf("improve"))
         => /\ improve'[k].pc = "idle"
            /\ outstanding' = outstanding
            /\ formValues' = formValues
            /\ formValues[k] # "" => toast'.kind = "busy" /\ toast'.by = k /\ toast'.wait >= 1]_vars

\* a refusal was reported inside the window of a success
C5_Witness ==
  /\ toast.kind = "busy"
  /\ toast.wait >= 1
  /\ InCooldownOf("improve")
  /\ \A k \in ImproveKinds : improve[k].pc = "idle"

\* C6: lastEnhancementTime changes only in the step in which a reply to
\* improveWithAI arrived that was ok and parsed; a failed reply and a
\* refusal leave it as it was.
C6_OnlySuccessMovesClock ==
  [][lastEnhancementTime' # lastEnhancementTime
       => \E k \in ImproveKinds, r \in ImproveReplies :
            ImproveResolve(k, r) /\ Succeeded(r)]_vars

\* after a reply with status 429 the clock is still 0 and the next request
\* of that kind was let through at once
C6_Witness ==
  \E k \in ImproveKinds :
    /\ toast = Toast("rate", k)
    /\ lastEnhancementTime = 0
    /\ improve[k].pc = "delay"
    /\ improve[k].startAt = now

\* C7: of each kind at most one request is outstanding, its flag is set
\* exactly while it is; until its reply is handled no step replaces what it
\* captured, and it ends only by its reply being handled.
C7_PerKindExclusion ==
  /\ [](\A k \in OpKinds : outstanding[k] <= 1 /\ (InFlight(k) <=> outstanding[k] = 1))
  /\ [][\A k \in OpKinds :
          outstanding[k] = 1
            => \/ outstanding'[k] = 1 /\ Captured(k)' = Captured(k)
               \/ outstanding'[k] = 0 /\ Resolved(k)]_vars

\* an enhance request is outstanding and the form has moved on since
C7_Witness ==
  /\ isEnhancing
  /\ outstanding["enhance"] = 1
  /\ enhance.snap # formValues

\* C8, as claimed: at most one request of all kinds together is outstanding.
C8_OneInTotal ==
  outstanding["summary"] + outstanding["skills"]
    + outstanding["enhance"] + outstanding["upload"] <= 1

\* C8, amended: at most one request of each kind is outstanding; requests
\* of different kinds are outstanding together.
C8_OnePerKind == \A k \in OpKinds : outstanding[k] <= 1

\* an improve request and an import are outstanding together
C8_Witness == outstanding["summary"] = 1 /\ outstanding["upload"] = 1

\* C9: never are two calls to the enhancement collaborator outstanding.
C9_CallsSerialized ==
  Cardinality({c \in {"summary", "skills", "enhance"} : CallOutstanding(c)}) <= 1

\* C10: an improve request for an empty field reports the empty input and
\* changes nothing else: no flag, no request, no form value, no clock.
C10_EmptyInputFirst ==
  [][\A k \in ImproveKinds :
       (HandleImprove(k) /\ formValues[k] = "")
         => /\ toast' = Toast("empty", k)
            /\ UNCHANGED <<initialContent, saveV, viewV, previewContent, formValues,
                           flagV, lastEnhancementTime, fetchV, pendV, now,
                           ghostV, countV>>]_vars

\* the empty input was reported inside the window of a success, where the
\* limiter would have refused
C10_Witness ==
  /\ toast.kind = "empty"
  /\ toast.by \in ImproveKinds
  /\ formValues[toast.by] = ""
  /\ InCooldownOf("improve")

\* C11: a whole-resume enhancement is sent only when summary, skills or
\* experience is not empty; with all three empty the request reports the
\* empty input and changes nothing else, whatever education, projects and
\* the contact fields hold.
C11_EnhanceNeedsContent ==
  [][HandleEnhanceResume =>
       IF formValues.summary = "" /\ formValues.skills = ""
            /\ formValues.experience = << >>
         THEN /\ toast' = Toast("empty", "enhance")
              /\ UNCHANGED <<initialContent, saveV, viewV, previewContent, formValues,
                             flagV, lastEnhancementTime, fetchV, pendV, now,
                             ghostV, countV>>
         ELSE enhance'.pc = "fetch" /\ enhance'.snap = formValues]_vars

\* the empty input was reported for a form that holds education, projects
\* or a contact field
C11_Witness ==
  /\ toast = Toast("empty", "enhance")
  /\ formValues.summary = "" /\ formValues.skills = ""
  /\ formValues.experience = << >>
  /\ formValues # DefaultValues
  /\ enhance.pc = "idle"

\* a reply that is ok and parsed
OkReply(r) == r.reply.net /\ r.reply.ok /\ r.reply.json

\* the reply r to a whole-resume enhancement or to an import is handled
DocumentResolved(r) == EnhanceResolve(r) \/ UploadResolve(r)

\* the field f is in the content of the reply r
Present(r, f) == r.content.has /\ f \in r.content.present

\* the value v of the field f is the empty string or the empty list
EmptyValue(f, v) == IF f \in ListFields THEN Len(v) = 0 ELSE v = ""

C13_PresentFieldsWritten ==
  [][\A r \in DocumentReplies :
       (EnhanceResolve(r) /\ OkReply(r))
         => \A f \in ResponseFields :
              Present(r, f) => formValues'[f] = r.content.val[f]]_vars

\* the cooldown test refuses an improve request of the kind k made now
Refused(k) == formValues[k] # "" /\ now - lastEnhancementTime < W

\* C14: a request that ends with a failed reply (the fetch rejected, the
\* response not ok, the body not parsed) or with the refusal of the cooldown
\* test writes no form value and leaves the displayed text as it was.
C14_FailureWritesNothing ==
  [][(\/ \E k \in ImproveKinds, r \in ImproveReplies :
           ~OkReply(r) /\ ImproveResolve(k, r)
      \/ \E r \in DocumentReplies : ~OkReply(r) /\ DocumentResolved(r)
      \/ \E k \in ImproveKinds : HandleImprove(k) /\ Refused(k))
       => formValues' = formValues /\ previewContent' = previewContent]_vars

\* an import failed on the Markdown tab of a session whose displayed text
\* was edited by hand: the text is still the edited one
C14_Witness ==
  /\ toast = Toast("error", "upload")
  /\ ~isUploading
  /\ activeTab = "preview"
  /\ previewContent \in ManualTexts
  /\ formValues = DefaultValues

\* C15: an ok reply to a whole-resume enhancement or to an import that is
\* handled on the Markdown tab leaves the displayed text as it was.
C15_ReplyKeepsFreeformText ==
  [][(/\ activeTab = "preview"
      /\ \E r \in DocumentReplies : DocumentResolved(r) /\ OkReply(r))
       => previewContent' = previewContent]_vars

Status429(r) == r.reply.net /\ r.reply.status = 429

\* the step shows the rate-limit message of the kind k exactly when the
\* reply r came with status 429 (a step that shows no message leaves the
\* last one)
RateLimitShownByStatus(k, r) ==
  IF Status429(r) THEN toast' = Toast("rate", k)
  ELSE toast' = toast \/ toast'.kind # "rate"

\* C17: a reply to an improve request or to a whole-resume enhancement is
\* reported as a rate limit exactly when its status is 429, whatever its
\* body.
C17_RateLimitedByStatus ==
  [][(\A k \in ImproveKinds, r \in ImproveReplies :
        ImproveResolve(k, r) => RateLimitShownByStatus(k, r))
     /\ (\A r \in DocumentReplies :
           EnhanceResolve(r) => RateLimitShownByStatus("enhance", r))]_vars

\* C17 for improve requests alone
C17_ImproveRateLimitedByStatus ==
  [][\A k \in ImproveKinds, r \in ImproveReplies :
       ImproveResolve(k, r) => RateLimitShownByStatus(k, r)]_vars

\* C18: every in-flight flag that is set is cleared again, whatever the
\* reply (a flag that is cleared again each time it is set is one that is
\* cleared infinitely often); a request refused by the cooldown test
\* reports the refusal and leaves its flag cleared.
C18_FlagsCleared ==
  /\ \A k \in OpKinds : []<>~InFlight(k)
  /\ [][\A k \in ImproveKinds :
          (HandleImprove(k) /\ Refused(k))
            => toast'.kind = "busy" /\ ~isImproving'[k]]_vars

\* a whole-resume enhancement failed and was requested again
C18_Witness ==
  /\ toast.by = "enhance"
  /\ toast.kind \in {"error", "rate"}
  /\ isEnhancing
  /\ enhance.pc = "fetch"

\* the text t followed by the section s, a separator between them when
\* neither is empty
Glue(t, s, sep) ==
  IF s = "" THEN t ELSE IF t = "" THEN s ELSE t \o sep \o s

\* the contact fields that are not empty, in their order, one separator
\* between two of them
ContactLine(c) ==
  Glue(Glue(Glue(Glue(
    IF c.name # "" THEN "**" \o c.name \o "**" ELSE "",
    IF c.email # "" THEN "(email) " \o c.email ELSE "", " | "),
    IF c.mobile # "" THEN "(mobile) " \o c.mobile ELSE "", " | "),
    IF c.linkedin # "" THEN "(linkedin) [LinkedIn](" \o c.linkedin \o ")" ELSE "", " | "),
    IF c.twitter # "" THEN "(twitter) [Twitter](" \o c.twitter \o ")" ELSE "", " | ")

\* the six sections of a document, in the order of the projection
SectionsOf(fv) ==
  << IF fv.contactInfo = EmptyContact THEN ""
       ELSE "## Contact Information\n\n" \o ContactLine(fv.contactInfo),
     IF fv.summary = "" THEN "" ELSE "## Professional Summary\n\n" \o fv.summary,
     IF fv.skills = "" THEN "" ELSE "## Skills\n\n" \o fv.skills,
     entriesToMarkdown(fv.experience, "Work Experience"),
     entriesToMarkdown(fv.education, "Education"),
     entriesToMarkdown(fv.projects, "Projects") >>

\* the sections that are not empty, glued in order
Glued(secs) ==
  Glue(Glue(Glue(Glue(Glue(secs[1], secs[2], "\n\n"), secs[3], "\n\n"),
    secs[4], "\n\n"), secs[5], "\n\n"), secs[6], "\n\n")

\* the length of the sections that are not empty and of one two-character
\* separator between two of them
GluedLen(secs) ==
  LET full == {i \in 1..6 : secs[i] # ""}
      total == Len(secs[1]) + Len(secs[2]) + Len(secs[3])
                 + Len(secs[4]) + Len(secs[5]) + Len(secs[6])
  IN IF full = {} THEN 0 ELSE total + 2 * (Cardinality(full) - 1)

\* C19: the projection is the sections contact, summary, skills,
\* experience, education, projects in that order, a section left out when
\* its data is empty (an entry list: when it has no entry; the contact
\* block: when no contact field is set, each field that is not set left
\* out of it), one blank line between two sections and none before, after
\* or doubled; a document with the name as its only datum projects to the
\* contact section alone.  After the switch to the Form tab the displayed
\* text is that projection.
C19_ProjectionShape ==
  LET secs == SectionsOf(formValues)
  IN /\ Projection = Glued(secs)
     /\ Len(Projection) = GluedLen(secs)
     /\ \A f \in ListFields : (secs[IF f = "experience" THEN 4 ELSE IF f = "education" THEN 5 ELSE 6] = "")
                                 <=> formValues[f] = << >>
     /\ formValues = [DefaultValues EXCEPT !.contactInfo.name = "Ana"]
          => Projection = "## Contact Information\n\n**Ana**"
     /\ (activeTab = "edit" /\ initialContent = "") => previewContent = Glued(secs)

\* the Form tab shows the contact section alone for a document with the
\* name as its only datum
C19_Witness ==
  /\ activeTab = "edit"
  /\ formValues = [DefaultValues EXCEPT !.contactInfo.name = "Ana"]
  /\ previewContent = "## Contact Information\n\n**Ana**"
  /\ nSteps = 1

\* C20: an improve request for a field that is not empty, made e ms after
\* the last success, is refused when e < W, with a wait of w whole seconds
\* where w is the least integer with W - e <= 1000 w, a number from 1 to
\* 60; when e >= W it is not refused and goes on to its request.
C20_WaitIsCeiling ==
  [][\A k \in ImproveKinds :
       (HandleImprove(k) /\ formValues[k] # "" /\ now >= lastEnhancementTime)
         => LET e == now - lastEnhancementTime
                w == toast'.wait
            IN IF e < 60000
                 THEN /\ toast'.kind = "busy" /\ toast'.by = k
                      /\ w \in 1..60
                      /\ 1000 * (w - 1) < 60000 - e
                      /\ 60000 - e <= 1000 * w
                      /\ improve'[k].pc = "idle"
                 ELSE improve'[k].pc = "delay" /\ toast' = toast]_vars

\* a request made one millisecond after the success was refused with a
\* wait of 60 seconds
C20_Witness ==
  /\ toast.kind = "busy"
  /\ toast.wait = 60
  /\ now - lastEnhancementTime = 1
  /\ \A k \in ImproveKinds : improve[k].pc = "idle"

\* C21: an import can be started whenever no import is in flight (and the
\* behaviour has a user event left), inside the cooldown and beside
\* requests of the other kinds; starting it sends the file, and neither
\* its start nor its reply changes lastEnhancementTime.
C21_ImportUnlimited ==
  /\ []((~isUploading /\ nSteps < MaxSteps) => ENABLED HandleFileUpload)
  /\ [][HandleFileUpload
          => /\ upload'.pc = "fetch" /\ isUploading'
             /\ lastEnhancementTime' = lastEnhancementTime]_vars
  /\ [][(upload.pc = "fetch" /\ upload'.pc = "idle")
          => lastEnhancementTime' = lastEnhancementTime]_vars

\* an import is in flight that was started inside the cooldown of a
\* successful improve request
C21_Witness ==
  /\ isUploading
  /\ upload.pc = "fetch"
  /\ lastEnhancementTime > 0
  /\ now - lastEnhancementTime < W

\* the step starts an improve, enhance or import request or sends it: the
\* call has not resolved when the step ends
StartsOrSends ==
  \/ \E k \in ImproveKinds :
       \/ improve[k].pc = "idle" /\ improve'[k].pc = "delay"
       \/ improve[k].pc = "delay" /\ improve'[k].pc = "fetch"
  \/ enhance.pc = "idle" /\ enhance'.pc = "fetch"
  \/ upload.pc = "idle" /\ upload'.pc = "fetch"

\* the success of the operation c is what the step reports
ReportsSuccess(c) == toast' = Toast("success", c)

\* the form holds every value the content of the reply r brings
Written(fv, r) ==
  \A f \in ResponseFields :
    (Present(r, f) /\ ~EmptyValue(f, r.content.val[f])) => fv[f] = r.content.val[f]

\* C22: within one successful improve, enhance or import the call resolves,
\* then the form values are written, then the success is reported: a step
\* that starts or sends a request writes no form value and reports no
\* success, and the step that reports the success is the one in which the
\* call has resolved and at whose end every value of the reply is written.
C22_ResolveWriteReport ==
  /\ [][StartsOrSends
          => /\ formValues' = formValues
             /\ toast' = toast \/ toast'.kind # "success"]_vars
  /\ [][\A k \in ImproveKinds, r \in ImproveReplies :
          (OkReply(r) /\ r.content # "" /\ ImproveResolve(k, r))
            => /\ improve'[k].pc = "idle"
               /\ formValues'[k] = r.content
               /\ ReportsSuccess(k)]_vars
  /\ [][\A r \in DocumentReplies :
          (OkReply(r) /\ EnhanceResolve(r))
            => enhance'.pc = "idle" /\ Written(formValues', r) /\ ReportsSuccess("enhance")]_vars
  /\ [][\A r \in DocumentReplies :
          (OkReply(r) /\ UploadResolve(r))
            => upload'.pc = "idle" /\ Written(formValues', r) /\ ReportsSuccess("upload")]_vars

\* an import has reported its success over a form the user had left empty:
\* the values of the reply are in the form, no request is outstanding
C22_Witness ==
  /\ toast = Toast("success", "upload")
  /\ upload.pc = "idle"
  /\ ~isUploading
  /\ formValues.summary = AiText
  /\ formValues.projects = AiEntries

\* the user has changed the field k since the improve request for it took
\* its text
EditedSinceStart(k) == improve[k].pc # "idle" /\ formValues[k] # improve[k].current

\* C23: the text an improve request sends is the one taken at its start and
\* stays that while the request is outstanding; when the request succeeds
\* with a result, the field holds the result although the user has changed
\* it in between; and while the request is outstanding the user can still
\* set the field to any other text.
C23_LastWriteWins ==
  /\ [][\A k \in ImproveKinds :
          (improve[k].pc # "idle" /\ improve'[k].pc # "idle")
            => improve'[k].current = improve[k].current]_vars
  /\ [][\A k \in ImproveKinds, r \in ImproveReplies :
          (OkReply(r) /\ r.content # "" /\ EditedSinceStart(k) /\ ImproveResolve(k, r))
            => formValues'[k] = r.content]_vars
  /\ [](\A k \in ImproveKinds :
          (improve[k].pc # "idle" /\ activeTab = "edit" /\ nSteps < MaxSteps)
            => \A v \in UserTexts \ {formValues[k]} : ENABLED SetText(k, v))

\* the summary was sent as t1 and the user has since made it t2: the
\* request is still waiting for its reply
C23_Witness ==
  /\ improve["summary"].pc = "fetch"
  /\ improve["summary"].current = "t1"
  /\ formValues.summary = "t2"
  /\ isImproving["summary"]

\* the step is the switch from the Form tab to the Markdown tab
EnterFreeform == activeTab = "edit" /\ activeTab' = "preview"

\* C24: the switch from the Form tab to the Markdown tab changes the tab
\* and nothing else: the displayed text, the form values, the editor's
\* mode, the in-flight flags, the suspended requests, the cooldown clock
\* and the results of the collaborators are what they were.
C24_EnterFreeformKeepsAll ==
  [][EnterFreeform
       => /\ previewContent' = previewContent
          /\ formValues' = formValues
          /\ flagV' = flagV
          /\ lastEnhancementTime' = lastEnhancementTime
          /\ lastSuccessAt' = lastSuccessAt
          /\ UNCHANGED <<initialContent, resumeMode, saveV, fetchV, pendV, now,
                         toast, outstanding>>]_vars

\* the Markdown tab of a session opened without text, reached from a form
\* with a summary while an improve request was outstanding: it shows the
\* projection, the request is still outstanding
C24_Witness ==
  /\ initialContent = ""
  /\ activeTab = "preview"
  /\ formValues.summary = "t1"
  /\ previewContent = Projection
  /\ isImproving["summary"]

\* the displayed text can be edited by hand in this state
CanEditByHand == \E text \in ManualTexts \cup {""} : ENABLED ManualEdit(text)

C26_DeleteClearsAll ==
  [][DeleteResolve(TRUE)
       => /\ formValues' = DefaultValues
          /\ atsScore' = 0 /\ atsFeedback' = ""
          /\ previewContent' = ""]_vars

\* the step hands a text to saveResume
SaveCalled == save.pc = "idle" /\ save'.pc = "call"

\* C27: saveResume is called only by a save of a form that passes the
\* schema, on either tab, and every such save calls it; the text it is given
\* is the displayed text of that moment, formatted, whether or not that is
\* the projection of the form; a save of a form that fails the schema calls
\* nothing and changes nothing.
C27_SaveSendsShownText ==
  /\ [][SaveCalled
          => /\ SchemaOk(formValues)
             /\ save'.text = Format(previewContent)
             /\ isSaving']_vars
  /\ [][(HandleSave /\ SchemaOk(formValues)) => SaveCalled]_vars
  /\ [][(HandleSave /\ ~SchemaOk(formValues))
          => UNCHANGED <<initialContent, saveV, viewV, previewContent, formValues,
                         flagV, lastEnhancementTime, fetchV, pendV, now, toast,
                         ghostV>>]_vars

\* a text typed by hand on the Markdown tab over an empty form is on its way
\* to saveResume, tidied: the projection of the form is the empty string
C27_Witness ==
  /\ save.pc = "call"
  /\ save.text = TidiedText
  /\ isSaving
  /\ activeTab = "preview"
  /\ previewContent = UntidyText
  /\ Projection = ""

\* the step is the end of an improve, enhance or import request, whatever
\* the reply
OperationCompletes ==
  \/ \E k \in ImproveKinds : improve[k].pc = "fetch" /\ improve'[k].pc = "idle"
  \/ enhance.pc = "fetch" /\ enhance'.pc = "idle"
  \/ upload.pc = "fetch" /\ upload'.pc = "idle"

\* C28: the end of an improve, enhance or import request leaves contactInfo
\* as it was, whatever the reply and its content; contactInfo is changed
\* only by the user's contact inputs on the Form tab and by a delete that
\* returned.
C28_ContactInfoKept ==
  /\ [][OperationCompletes
          => formValues'.contactInfo = formValues.contactInfo]_vars
  /\ [][formValues'.contactInfo # formValues.contactInfo
          => (\/ \E f \in EditedContactFields : \E v \in TypedValues(f) : SetContact(f, v)
              \/ DeleteResolve(TRUE))]_vars

\* an import has replaced every section of a form whose contact name the
\* user had typed: the name is still there
C28_Witness ==
  /\ toast = Toast("success", "upload")
  /\ ~isUploading
  /\ formValues.contactInfo.name = "Ana"
  /\ formValues.summary = AiText
  /\ formValues.education = AiEntries

====
